---------------------------- MODULE Spec2Model ----------------------------
(***************************************************************************)
(* Model of src/power_sum_visual.py: the power-sum enumeration             *)
(* (ComputationEngine.compute_power_sums), its cooperative stop flag and   *)
(* its signals, and the MainWindow handlers that start, stop and consume   *)
(* a computation.                                                          *)
(*                                                                         *)
(* Execution model.  The engine is moved to a QThread and the source       *)
(* documents the computation as running "in a separate thread"; the model  *)
(* therefore has two contexts: the worker, which executes                  *)
(* compute_power_sums one loop iteration at a time, and the foreground     *)
(* (the GUI event loop), which runs one handler at a time.  The engine's   *)
(* signals reach the foreground through queued connections: an emission    *)
(* appends to the FIFO `events`, a handler consumes its head.  Events that *)
(* are already queued stay queued when the window drops its reference to   *)
(* the engine.  QThread.wait() in _cleanup_computation blocks the          *)
(* foreground until compute_power_sums has returned.                       *)
(***************************************************************************)
EXTENDS Integers, Sequences, FiniteSets, TLC

(***************************************************************************)
(* Bounds of the model and constants of the program.                       *)
(***************************************************************************)
\* number of computations the foreground may start in one behaviour
MaxJobs == 2
\* largest max_sum of the exhaustive enumeration inputs (powers 1..5)
SmallMaxSum == 50
\* `current_pair % 1000 == 0` (line 120)
ProgressInterval == 1000

\* inputs of the stand-alone enumeration: <<power, max_sum>>
EnumInputs ==
    ({1, 2, 3, 4, 5} \X (0 .. SmallMaxSum))
        \cup ({2, 3, 4, 5} \X {0, 1, 2, 10, 1000})

\* inputs the window passes to _start_computation, <<power, max_sum>>: the
\* power radio buttons carry the ids 2..5 and _validate_max_sum returns a
\* positive int.  The first computation of a behaviour may be one long
\* enough to emit two progress signals; later ones are short.
LongInput == <<2, 5000>>
ShortInputs == {<<2, 2>>, <<3, 9>>}
AppInputs(j) == IF j = 1 THEN ShortInputs \cup {LongInput} ELSE ShortInputs

(***************************************************************************)
(* Arithmetic of compute_power_sums.                                       *)
(***************************************************************************)
RECURSIVE Pow(_, _)
\* a ** power for integers, power >= 0
Pow(x, n) == IF n = 0 THEN 1 ELSE x * Pow(x, n - 1)

RECURSIVE RootFrom(_, _, _)
RootFrom(r, n, p) == IF Pow(r + 1, p) <= n THEN RootFrom(r + 1, n, p) ELSE r

\* the largest r with r^p <= n: the exact value of floor(n^(1/p))
IRoot(n, p) == RootFrom(0, n, p)

\* int(max_sum ** (1.0 / power)): the exponent 1.0/power and the power
\* function are floating point.  When max_sum is not a perfect power the
\* truncation is the exact floor; when max_sum = r^power with power > 1 the
\* float result may fall just below r (1000 ** (1/3) = 9.999...), so both
\* truncations are outcomes.  0 ** y, 1 ** y and x ** 1.0 are exact.
FloatRootChoices(max_sum, power) ==
    LET r == IRoot(max_sum, power)
    IN  IF power > 1 /\ r >= 2 /\ Pow(r, power) = max_sum
        THEN {r - 1, r}
        ELSE {r}

\* line 93: max_individual = int(max_sum ** (1.0 / power)) + 1
MaxIndividualChoices(max_sum, power) ==
    {r + 1 : r \in FloatRootChoices(max_sum, power)}

\* an estimate of half the triangle
TotalPairsHalved(mi) == (mi * (mi + 1)) \div 4

\* an estimate that leaves the diagonal out
TotalPairsOpen(mi) == (mi * (mi - 1)) \div 2

\* line 94: total_pairs = (max_individual * (max_individual + 1)) // 2
TotalPairs(mi) == (mi * (mi + 1)) \div 2

\* the sum with the second term left unraised
PowerSumSkewed(x, y, p) == Pow(x, p) + y

\* lines 102, 110-111: power_sum = a ** power + b ** power
PowerSum(x, y, p) == Pow(x, p) + Pow(y, p)

\* the bound test with < for <=
KeepStrict(s, m) == s < m

\* line 114: if power_sum <= max_sum
Keep(s, m) == s <= m

\* the inner range started at 1 for every a
InnerStartOne(x) == 1

\* the inner range started one above a
InnerStartNext(x) == x + 1

\* line 106: range(a, max_individual + 1) starts at a
InnerStart(x) == x

\* an insertion at the front of the group instead of its end
PrependPair(sc, s, x, y) ==
    IF s \in DOMAIN sc
    THEN [sc EXCEPT ![s] = <<<<x, y>>>> \o @]
    ELSE sc @@ (s :> << <<x, y>> >>)

\* line 115: sum_combinations[power_sum].append((a, b)) on a defaultdict(list)
AppendPair(sc, s, x, y) ==
    IF s \in DOMAIN sc
    THEN [sc EXCEPT ![s] = Append(@, <<x, y>>)]
    ELSE sc @@ (s :> << <<x, y>> >>)

EmptyMap == [k \in {} |-> <<>>]

\* no ComputationResult has been constructed
NoResults == [j \in {} |-> 0]

VARIABLES
    \* ---- ComputationEngine and the frame of compute_power_sums ----
    wpc,               \* "none" | "started" | "outer" | "inner" | "finish" | "done"
    wjob,              \* the job the worker thread belongs to (0: none)
    should_stop,       \* ComputationEngine.should_stop
    power, max_sum,    \* arguments of compute_power_sums
    max_individual, total_pairs, current_pair, a, b,
    sum_combinations,  \* defaultdict(list): power_sum -> sequence of pairs
    \* ---- signals in flight and the objects they carry ----
    events,            \* queued signal emissions, oldest first
    results,           \* the ComputationResult objects, by constructing job
    \* ---- MainWindow ----
    fpc,               \* "idle" | "wait_stop" | "wait_finished" | "wait_error"
    computation_thread, computation_engine,  \* 0 is None, else the job
    current_result,    \* 0 is None, else the job whose result is held
    current_data,      \* PlotWidget.current_data, same encoding
    apply_enabled, stop_enabled, progress_visible, progress_value,
    info_text,         \* what the info label shows (see the Info records)
    csv_file,          \* rows of the last exported file (<<>>: none written)
    \* ---- history, for stating properties ----
    njobs,             \* jobs started so far
    outcome,           \* job -> "running" | "finished" | "stopped" | "error"
    emitted,           \* every signal emission so far, in order
    delivered,         \* every emission a foreground handler has handled
    stop_req,          \* job -> worker position when Stop was requested
    last_handler       \* the foreground handler that ran last

wvars == <<wpc, wjob, should_stop, power, max_sum, max_individual,
           total_pairs, current_pair, a, b, sum_combinations>>
qvars == <<events, results>>
fvars == <<fpc, computation_thread, computation_engine, current_result,
           current_data, apply_enabled, stop_enabled, progress_visible,
           progress_value, info_text, csv_file>>
hvars == <<njobs, outcome, emitted, delivered, stop_req, last_handler>>
vars == <<wvars, qvars, fvars, hvars>>

Jobs == 1 .. MaxJobs

Emit(e) == /\ events' = Append(events, e)
           /\ emitted' = Append(emitted, e)

(***************************************************************************)
(* compute_power_sums, one action per step of the worker.                  *)
(***************************************************************************)
\* lines 84-95: the prologue, up to the first evaluation of the outer range
WBegin ==
    /\ wpc = "started"
    /\ should_stop' = FALSE
    /\ sum_combinations' = EmptyMap
    /\ \E mi \in MaxIndividualChoices(max_sum, power) :
          /\ max_individual' = mi
          /\ total_pairs' = TotalPairs(mi)
    /\ current_pair' = 0
    /\ a' = 1
    /\ wpc' = "outer"
    /\ UNCHANGED <<wjob, power, max_sum, b, qvars, fvars, hvars>>

\* an outer loop that, on reading the stop flag, leaves the loop and hands
\* on what it has found so far
WOuterHandsOn ==
    /\ wpc = "outer"
    /\ IF a > max_individual
       THEN /\ wpc' = "finish"
            /\ UNCHANGED <<b, outcome>>
       ELSE IF should_stop
       THEN /\ wpc' = "finish"
            /\ UNCHANGED <<b, outcome>>
       ELSE IF Pow(a, power) > max_sum
       THEN /\ wpc' = "finish"
            /\ UNCHANGED <<b, outcome>>
       ELSE /\ wpc' = "inner"
            /\ b' = InnerStart(a)
            /\ UNCHANGED outcome
    /\ UNCHANGED <<wjob, should_stop, power, max_sum, max_individual,
                   total_pairs, current_pair, a, sum_combinations, qvars,
                   fvars, njobs, emitted, delivered, stop_req, last_handler>>

\* an outer loop that, on reading the stop flag, waits for it to clear
WOuterWaits ==
    /\ wpc = "outer"
    /\ IF a > max_individual
       THEN /\ wpc' = "finish"
            /\ UNCHANGED <<b, outcome>>
       ELSE IF should_stop
       THEN UNCHANGED <<wpc, b, outcome>>
       ELSE IF Pow(a, power) > max_sum
       THEN /\ wpc' = "finish"
            /\ UNCHANGED <<b, outcome>>
       ELSE /\ wpc' = "inner"
            /\ b' = InnerStart(a)
            /\ UNCHANGED outcome
    /\ UNCHANGED <<wjob, should_stop, power, max_sum, max_individual,
                   total_pairs, current_pair, a, sum_combinations, qvars,
                   fvars, njobs, emitted, delivered, stop_req, last_handler>>

\* lines 98-104: the head of one outer iteration
WOuter ==
    /\ wpc = "outer"
    /\ IF a > max_individual
       THEN /\ wpc' = "finish"
            /\ UNCHANGED <<b, outcome>>
       ELSE IF should_stop
       THEN /\ wpc' = "done"
            /\ outcome' = [outcome EXCEPT ![wjob] = "stopped"]
            /\ UNCHANGED b
       ELSE IF Pow(a, power) > max_sum
       THEN /\ wpc' = "finish"
            /\ UNCHANGED <<b, outcome>>
       ELSE /\ wpc' = "inner"
            /\ b' = InnerStart(a)
            /\ UNCHANGED outcome
    /\ UNCHANGED <<wjob, should_stop, power, max_sum, max_individual,
                   total_pairs, current_pair, a, sum_combinations, qvars,
                   fvars, njobs, emitted, delivered, stop_req, last_handler>>

\* an inner loop that is left at the first sum above max_sum, whatever b is
WInnerPrunes ==
    /\ wpc = "inner"
    /\ IF b > max_individual
       THEN /\ a' = a + 1
            /\ wpc' = "outer"
            /\ UNCHANGED <<b, sum_combinations, current_pair, outcome,
                           events, emitted>>
       ELSE IF should_stop
       THEN /\ wpc' = "done"
            /\ outcome' = [outcome EXCEPT ![wjob] = "stopped"]
            /\ UNCHANGED <<a, b, sum_combinations, current_pair, events,
                           emitted>>
       ELSE LET power_sum == PowerSum(a, b, power) IN
            IF ~Keep(power_sum, max_sum)
            THEN /\ a' = a + 1
                 /\ wpc' = "outer"
                 /\ UNCHANGED <<b, sum_combinations, current_pair, outcome,
                                events, emitted>>
            ELSE /\ sum_combinations' =
                        IF Keep(power_sum, max_sum)
                        THEN AppendPair(sum_combinations, power_sum, a, b)
                        ELSE sum_combinations
                 /\ current_pair' = current_pair + 1
                 /\ IF (current_pair + 1) % ProgressInterval = 0
                    THEN Emit([type |-> "progress", job |-> wjob,
                               current |-> current_pair + 1,
                               total |-> total_pairs])
                    ELSE UNCHANGED <<events, emitted>>
                 /\ b' = b + 1
                 /\ UNCHANGED <<a, wpc, outcome>>
    /\ UNCHANGED <<wjob, should_stop, power, max_sum, max_individual,
                   total_pairs, results, fvars, njobs, delivered, stop_req,
                   last_handler>>

\* lines 106-121: one inner iteration
WInner ==
    /\ wpc = "inner"
    /\ IF b > max_individual
       THEN /\ a' = a + 1
            /\ wpc' = "outer"
            /\ UNCHANGED <<b, sum_combinations, current_pair, outcome,
                           events, emitted>>
       ELSE IF should_stop
       THEN /\ wpc' = "done"
            /\ outcome' = [outcome EXCEPT ![wjob] = "stopped"]
            /\ UNCHANGED <<a, b, sum_combinations, current_pair, events,
                           emitted>>
       ELSE LET power_sum == PowerSum(a, b, power) IN
            IF ~Keep(power_sum, max_sum) /\ b = a
            THEN \* line 116-117: break, the iteration is not counted
                 /\ a' = a + 1
                 /\ wpc' = "outer"
                 /\ UNCHANGED <<b, sum_combinations, current_pair, outcome,
                                events, emitted>>
            ELSE /\ sum_combinations' =
                        IF Keep(power_sum, max_sum)
                        THEN AppendPair(sum_combinations, power_sum, a, b)
                        ELSE sum_combinations
                 /\ current_pair' = current_pair + 1
                 /\ IF (current_pair + 1) % ProgressInterval = 0
                    THEN Emit([type |-> "progress", job |-> wjob,
                               current |-> current_pair + 1,
                               total |-> total_pairs])
                    ELSE UNCHANGED <<events, emitted>>
                 /\ b' = b + 1
                 /\ UNCHANGED <<a, wpc, outcome>>
    /\ UNCHANGED <<wjob, should_stop, power, max_sum, max_individual,
                   total_pairs, results, fvars, njobs, delivered, stop_req,
                   last_handler>>

\* WFinish followed by a closing progress signal
WFinishThenProgress ==
    /\ wpc = "finish"
    /\ results' = (wjob :> [power |-> power, max_num |-> max_sum,
                             sum_combinations |-> sum_combinations])
                       @@ results
    /\ LET fin == [type |-> "finished", job |-> wjob, current |-> 0,
                   total |-> 0]
           pro == [type |-> "progress", job |-> wjob,
                   current |-> total_pairs, total |-> total_pairs]
       IN  /\ events' = events \o <<fin, pro>>
           /\ emitted' = emitted \o <<fin, pro>>
    /\ outcome' = [outcome EXCEPT ![wjob] = "finished"]
    /\ wpc' = "done"
    /\ UNCHANGED <<wjob, should_stop, power, max_sum, max_individual,
                   total_pairs, current_pair, a, b, sum_combinations,
                   fvars, njobs, delivered, stop_req, last_handler>>

\* lines 123-131: build the ComputationResult and emit finished
WFinish ==
    /\ wpc = "finish"
    /\ results' = (wjob :> [power |-> power, max_num |-> max_sum,
                             sum_combinations |-> sum_combinations])
                       @@ results
    /\ Emit([type |-> "finished", job |-> wjob, current |-> 0, total |-> 0])
    /\ outcome' = [outcome EXCEPT ![wjob] = "finished"]
    /\ wpc' = "done"
    /\ UNCHANGED <<wjob, should_stop, power, max_sum, max_individual,
                   total_pairs, current_pair, a, b, sum_combinations,
                   fvars, njobs, delivered, stop_req, last_handler>>

\* WFault with the except clause inside the loop: error is emitted and the
\* run goes on
WFaultContinues ==
    /\ wpc \in {"started", "outer", "inner", "finish"}
    /\ Emit([type |-> "error", job |-> wjob, current |-> 0, total |-> 0])
    /\ outcome' = [outcome EXCEPT ![wjob] = "error"]
    /\ UNCHANGED <<wvars, results, fvars, njobs, delivered, stop_req,
                   last_handler>>

\* lines 133-134: a statement of the try block raises; the handler emits
\* error and the method returns
WFault ==
    /\ wpc \in {"started", "outer", "inner", "finish"}
    /\ Emit([type |-> "error", job |-> wjob, current |-> 0, total |-> 0])
    /\ outcome' = [outcome EXCEPT ![wjob] = "error"]
    /\ wpc' = "done"
    /\ UNCHANGED <<wjob, should_stop, power, max_sum, max_individual,
                   total_pairs, current_pair, a, b, sum_combinations,
                   results, fvars, njobs, delivered, stop_req, last_handler>>

\* The inner loop at statement granularity: the head of an iteration (the
\* range test and the read of the stop flag) and its body are separate
\* steps, so that the flag may be set between them.

\* an iteration head that does not read the stop flag
WInnerHeadUnchecked ==
    /\ wpc = "inner"
    /\ IF b > max_individual
       THEN /\ a' = a + 1
            /\ wpc' = "outer"
       ELSE /\ wpc' = "body"
            /\ UNCHANGED a
    /\ UNCHANGED <<wjob, should_stop, power, max_sum, max_individual,
                   total_pairs, current_pair, b, sum_combinations, qvars,
                   fvars, hvars>>

\* lines 106-108: for b in range(a, max_individual + 1); if should_stop: return
WInnerHead ==
    /\ wpc = "inner"
    /\ IF b > max_individual
       THEN /\ a' = a + 1
            /\ wpc' = "outer"
            /\ UNCHANGED outcome
       ELSE IF should_stop
       THEN /\ wpc' = "done"
            /\ outcome' = [outcome EXCEPT ![wjob] = "stopped"]
            /\ UNCHANGED a
       ELSE /\ wpc' = "body"
            /\ UNCHANGED <<a, outcome>>
    /\ UNCHANGED <<wjob, should_stop, power, max_sum, max_individual,
                   total_pairs, current_pair, b, sum_combinations, qvars,
                   fvars, njobs, emitted, delivered, stop_req, last_handler>>

\* lines 110-121: the body of one inner iteration
WInnerBody ==
    /\ wpc = "body"
    /\ LET power_sum == PowerSum(a, b, power) IN
       IF ~Keep(power_sum, max_sum) /\ b = a
       THEN /\ a' = a + 1
            /\ wpc' = "outer"
            /\ UNCHANGED <<b, sum_combinations, current_pair, events,
                           emitted>>
       ELSE /\ sum_combinations' =
                   IF Keep(power_sum, max_sum)
                   THEN AppendPair(sum_combinations, power_sum, a, b)
                   ELSE sum_combinations
            /\ current_pair' = current_pair + 1
            /\ IF (current_pair + 1) % ProgressInterval = 0
               THEN Emit([type |-> "progress", job |-> wjob,
                          current |-> current_pair + 1,
                          total |-> total_pairs])
               ELSE UNCHANGED <<events, emitted>>
            /\ b' = b + 1
            /\ wpc' = "inner"
            /\ UNCHANGED a
    /\ UNCHANGED <<wjob, should_stop, power, max_sum, max_individual,
                   total_pairs, results, fvars, njobs, outcome, delivered,
                   stop_req, last_handler>>

\* lines 72-74: stop_computation, called from another thread while
\* compute_power_sums runs; stop_req keeps where the worker was
StopComputation ==
    /\ wpc \in {"started", "outer", "inner", "body", "finish"}
    /\ ~should_stop
    /\ should_stop' = TRUE
    /\ stop_req' = IF stop_req[wjob] = "no"
                   THEN [stop_req EXCEPT ![wjob] = wpc]
                   ELSE stop_req
    /\ UNCHANGED <<wpc, wjob, power, max_sum, max_individual, total_pairs,
                   current_pair, a, b, sum_combinations, qvars, fvars,
                   njobs, outcome, emitted, delivered, last_handler>>

\* The info label.  Its text is kept as what it is built from: which
\* message it is and the numbers and pairs the message shows.
Info(k, s, c, ps, m) ==
    [kind |-> k, sum |-> s, count |-> c, pairs |-> ps, more |-> m]

\* lines 422, 552: "Select a point for more info"
InfoSelect == Info("select", 0, 0, <<>>, 0)

\* line 509: "Computing..."
InfoComputing == Info("computing", 0, 0, <<>>, 0)

\* lines 541-545: "Computation completed ... Found n unique sums."
InfoCompleted(n) == Info("completed", 0, n, <<>>, 0)

(***************************************************************************)
(* The enumeration alone: compute_power_sums called with each input of     *)
(* EnumInputs and run to completion, undisturbed.                          *)
(***************************************************************************)
\* compute_power_sums entered with an input of the set I
RunInit(I) ==
    /\ wpc = "started"
    /\ wjob = 1
    /\ should_stop = FALSE
    /\ \E in \in I : power = in[1] /\ max_sum = in[2]
    /\ max_individual = 0 /\ total_pairs = 0 /\ current_pair = 0
    /\ a = 0 /\ b = 0
    /\ sum_combinations = EmptyMap
    /\ events = <<>>
    /\ results = NoResults
    /\ fpc = "idle"
    /\ computation_thread = 0 /\ computation_engine = 0
    /\ current_result = 0 /\ current_data = 0
    /\ apply_enabled = FALSE /\ stop_enabled = FALSE
    /\ progress_visible = FALSE /\ progress_value = 0
    /\ info_text = InfoSelect
    /\ csv_file = <<>>
    /\ njobs = 1
    /\ outcome = [j \in Jobs |-> "running"]
    /\ emitted = <<>>
    /\ delivered = <<>>
    /\ stop_req = [j \in Jobs |-> "no"]
    /\ last_handler = "none"

EnumInit == RunInit(EnumInputs)

EnumNext == WBegin \/ WOuter \/ WInner \/ WFinish

EnumSpec == EnumInit /\ [][EnumNext]_vars

(***************************************************************************)
(* MainWindow: one action per handler.  A handler that reaches             *)
(* QThread.wait() with a running thread stops there (fpc = "wait_...") and *)
(* is resumed by CleanupResume once compute_power_sums has returned.       *)
(***************************************************************************)
\* int((current / total) * 100), line 557: float division and product.  A
\* quotient that is not an integer is truncated exactly; an exact integer
\* q may come out just below q.
PercentChoices(cur, tot) ==
    LET q == (cur * 100) \div tot
    IN  IF (cur * 100) % tot = 0 /\ q > 0 THEN {q - 1, q} ELSE {q}

\* lines 538-552: what a handler writes to the label after its call of
\* _cleanup_computation; r is the result _on_computation_finished stored
InfoAfter(h, r) ==
    IF h = "wait_finished"
    THEN InfoCompleted(Cardinality(DOMAIN results[r].sum_combinations))
    ELSE IF h = "wait_error" THEN InfoSelect
    ELSE info_text

\* a clean-up that leaves the Stop button as it is
CleanupTailKeepsStop ==
    /\ computation_thread' = 0
    /\ computation_engine' = 0
    /\ apply_enabled' = TRUE
    /\ UNCHANGED stop_enabled
    /\ progress_visible' = FALSE

\* lines 566-572: the part of _cleanup_computation after the wait
CleanupTail ==
    /\ computation_thread' = 0
    /\ computation_engine' = 0
    /\ apply_enabled' = TRUE
    /\ stop_enabled' = FALSE
    /\ progress_visible' = FALSE

\* lines 560-572: _cleanup_computation called from handler `h`.  A thread
\* the window still references is running (it ends only inside wait()).
Cleanup(h) ==
    IF computation_thread # 0
    THEN /\ fpc' = h
         /\ UNCHANGED <<computation_thread, computation_engine,
                        apply_enabled, stop_enabled, progress_visible,
                        info_text>>
    ELSE /\ fpc' = "idle"
         /\ CleanupTail
         /\ info_text' = InfoAfter(h, current_result')

\* line 473: above this value _validate_max_sum asks for confirmation
LargeMaxSum == 100000

\* What the Apply handler reads: the checked power button, the text of the
\* max-sum field (numeric says whether int() parses it, value is the parsed
\* number) and the answer the user gives if the confirmation box is shown.
Request(p, isnum, v, yes) ==
    [power |-> p, numeric |-> isnum, value |-> v, reply |-> yes]

\* inputs the three rejecting branches of _validate_max_sum are taken on
RejectedRequests ==
    { Request(2, FALSE, 0, FALSE),
      Request(2, TRUE, 0, FALSE),
      Request(5, TRUE, LargeMaxSum + 1, FALSE) }

\* the requests the model draws for job j: AppInputs typed as text, one
\* large value whose confirmation is accepted, and the rejected ones
ApplyRequests(j) ==
    { Request(in[1], TRUE, in[2], yes) : in \in AppInputs(j), yes \in BOOLEAN }
      \cup (IF j = 1 THEN {Request(5, TRUE, LargeMaxSum + 1, TRUE)} ELSE {})
      \cup RejectedRequests

\* _validate_max_sum that ignores the answer to its confirmation box
ValidateMaxSumLax(req) ==
    IF ~req.numeric THEN 0
    ELSE IF req.value <= 0 THEN 0
    ELSE req.value

\* lines 465-485: _validate_max_sum; 0 stands for the None it returns
ValidateMaxSum(req) ==
    IF ~req.numeric THEN 0                                  \* ValueError
    ELSE IF req.value <= 0 THEN 0
    ELSE IF req.value > LargeMaxSum /\ ~req.reply THEN 0
    ELSE req.value

\* _start_computation that also drops the stored result
StartComputationClears(p, m) ==
    /\ power' = p
    /\ max_sum' = m
    /\ njobs' = njobs + 1
    /\ apply_enabled' = FALSE
    /\ stop_enabled' = TRUE
    /\ progress_visible' = TRUE
    /\ progress_value' = 0
    /\ computation_thread' = njobs + 1
    /\ computation_engine' = njobs + 1
    /\ should_stop' = FALSE            \* ComputationEngine.__init__, line 70
    /\ wpc' = "started"                \* QThread.start(), line 526
    /\ wjob' = njobs + 1
    /\ info_text' = InfoComputing      \* line 509
    /\ last_handler' = "apply"
    /\ current_result' = 0
    /\ UNCHANGED <<max_individual, total_pairs, current_pair, a, b,
                   sum_combinations, qvars, fpc, current_data, csv_file,
                   outcome, emitted, delivered, stop_req>>

\* a start whose engine is constructed with the stop flag set
StartComputationFlagSet(p, m) ==
    /\ power' = p
    /\ max_sum' = m
    /\ njobs' = njobs + 1
    /\ apply_enabled' = FALSE
    /\ stop_enabled' = TRUE
    /\ progress_visible' = TRUE
    /\ progress_value' = 0
    /\ computation_thread' = njobs + 1
    /\ computation_engine' = njobs + 1
    /\ should_stop' = TRUE
    /\ wpc' = "started"                \* QThread.start(), line 526
    /\ wjob' = njobs + 1
    /\ info_text' = InfoComputing      \* line 509
    /\ last_handler' = "apply"
    /\ UNCHANGED <<max_individual, total_pairs, current_pair, a, b,
                   sum_combinations, qvars, fpc, current_result,
                   current_data, csv_file, outcome, emitted, delivered,
                   stop_req>>

\* lines 499-526: _start_computation(power, m)
StartComputation(p, m) ==
    /\ power' = p
    /\ max_sum' = m
    /\ njobs' = njobs + 1
    /\ apply_enabled' = FALSE
    /\ stop_enabled' = TRUE
    /\ progress_visible' = TRUE
    /\ progress_value' = 0
    /\ computation_thread' = njobs + 1
    /\ computation_engine' = njobs + 1
    /\ should_stop' = FALSE            \* ComputationEngine.__init__, line 70
    /\ wpc' = "started"                \* QThread.start(), line 526
    /\ wjob' = njobs + 1
    /\ info_text' = InfoComputing      \* line 509
    /\ last_handler' = "apply"
    /\ UNCHANGED <<max_individual, total_pairs, current_pair, a, b,
                   sum_combinations, qvars, fpc, current_result,
                   current_data, csv_file, outcome, emitted, delivered,
                   stop_req>>

\* lines 487-497: _on_apply on the request req
OnApplyWith(req) ==
    /\ fpc = "idle"
    /\ apply_enabled
    /\ njobs < MaxJobs
    /\ IF ValidateMaxSum(req) = 0
       THEN /\ last_handler' = "rejected"                   \* line 495
            /\ UNCHANGED <<wvars, qvars, fvars, njobs, outcome, emitted,
                           delivered, stop_req>>
       ELSE StartComputation(req.power, ValidateMaxSum(req))

\* lines 487-497: _on_apply.  The Apply button is the only caller.
OnApply == \E req \in ApplyRequests(njobs + 1) : OnApplyWith(req)

\* _on_stop that also discards the stored result
OnStopClears ==
    /\ fpc = "idle"
    /\ IF computation_engine # 0
       THEN /\ should_stop' = TRUE
            /\ stop_req' = IF stop_req[computation_engine] = "no"
                           THEN [stop_req EXCEPT ![computation_engine] = wpc]
                           ELSE stop_req
       ELSE UNCHANGED <<should_stop, stop_req>>
    /\ Cleanup("wait_stop")
    /\ last_handler' = "stop"
    /\ current_result' = 0
    /\ current_data' = 0
    /\ UNCHANGED <<wpc, wjob, power, max_sum, max_individual, total_pairs,
                   current_pair, a, b, sum_combinations, qvars,
                   progress_value, csv_file, njobs, outcome, emitted,
                   delivered>>

\* lines 528-532: _on_stop
OnStop ==
    /\ fpc = "idle"
    /\ IF computation_engine # 0
       THEN /\ should_stop' = TRUE
            /\ stop_req' = IF stop_req[computation_engine] = "no"
                           THEN [stop_req EXCEPT ![computation_engine] = wpc]
                           ELSE stop_req
       ELSE UNCHANGED <<should_stop, stop_req>>
    /\ Cleanup("wait_stop")
    /\ last_handler' = "stop"
    /\ UNCHANGED <<wpc, wjob, power, max_sum, max_individual, total_pairs,
                   current_pair, a, b, sum_combinations, qvars,
                   current_result, current_data, progress_value, csv_file,
                   njobs, outcome, emitted, delivered>>

\* lines 534-545: _on_computation_finished, run for the oldest queued
\* emission when that is a finished signal
OnComputationFinished ==
    /\ fpc = "idle"
    /\ events # <<>>
    /\ Head(events).type = "finished"
    /\ events' = Tail(events)
    /\ delivered' = Append(delivered, Head(events))
    /\ current_result' = Head(events).job
    /\ current_data' = Head(events).job      \* _update_plot_display
    /\ Cleanup("wait_finished")
    /\ last_handler' = "finished"
    /\ UNCHANGED <<wvars, results, progress_value, csv_file, njobs, outcome,
                   emitted, stop_req>>

\* _on_computation_error that also discards the stored result
OnComputationErrorClears ==
    /\ fpc = "idle"
    /\ events # <<>>
    /\ Head(events).type = "error"
    /\ events' = Tail(events)
    /\ delivered' = Append(delivered, Head(events))
    /\ Cleanup("wait_error")
    /\ last_handler' = "error"
    /\ current_result' = 0
    /\ current_data' = 0
    /\ UNCHANGED <<wvars, results, progress_value, csv_file, njobs, outcome,
                   emitted, stop_req>>

\* lines 547-552: _on_computation_error
OnComputationError ==
    /\ fpc = "idle"
    /\ events # <<>>
    /\ Head(events).type = "error"
    /\ events' = Tail(events)
    /\ delivered' = Append(delivered, Head(events))
    /\ Cleanup("wait_error")
    /\ last_handler' = "error"
    /\ UNCHANGED <<wvars, results, current_result, current_data,
                   progress_value, csv_file, njobs, outcome, emitted,
                   stop_req>>

\* lines 554-558: _on_progress_update
OnProgressUpdate ==
    /\ fpc = "idle"
    /\ events # <<>>
    /\ Head(events).type = "progress"
    /\ events' = Tail(events)
    /\ delivered' = Append(delivered, Head(events))
    /\ IF Head(events).total > 0
       THEN progress_value' \in
                PercentChoices(Head(events).current, Head(events).total)
       ELSE UNCHANGED progress_value
    /\ last_handler' = "progress"
    /\ UNCHANGED <<wvars, results, fpc, computation_thread,
                   computation_engine, current_result, current_data,
                   apply_enabled, stop_enabled, progress_visible, info_text,
                   csv_file, njobs, outcome, emitted, stop_req>>

(***************************************************************************)
(* PlotWidget._on_click and MainWindow._on_point_clicked.  transData is    *)
(* affine; the model takes it as a scale per axis with whole-number        *)
(* display coordinates, and the click as a display position inside the     *)
(* axes.                                                                   *)
(***************************************************************************)
\* line 262: the hit radius, in display units
HitRadius == 50

\* line 609: the number of pairs the label shows before "... and n more"
MaxShownPairs == 20

\* clicks and exports are taken on results of at most this many sums
MaxViewSums == 20

\* every point of the series lies inside the axes (lines 227-231), whose
\* display coordinates do not exceed this width
DisplayWidth == 10000

\* the scales of transData and the click positions the model draws
ViewScales == {1, 2}
ClickXs == {5, 68, 69}
ClickYs == {2}

\* lines 250-255: the square of dist for the point (s, c) of the series
Dist2(sx, sy, s, c, ex, ey) ==
    (sx * s - ex) * (sx * s - ex) + (sy * c - ey) * (sy * c - ey)

\* lines 239-240, 250-256: sums, counts and the squared distance of the
\* point of sum s of the result res
PointDist2(res, sx, sy, s, ex, ey) ==
    Dist2(sx, sy, s, Len(res.sum_combinations[s]), ex, ey)

\* min(distances) that resolves equal distances to the largest index
ClosestSumLast(res, sx, sy, ex, ey) ==
    CHOOSE s \in DOMAIN res.sum_combinations :
        \A t \in DOMAIN res.sum_combinations :
            \/ PointDist2(res, sx, sy, s, ex, ey)
                  < PointDist2(res, sx, sy, t, ex, ey)
            \/ /\ PointDist2(res, sx, sy, s, ex, ey)
                     = PointDist2(res, sx, sy, t, ex, ey)
               /\ s >= t

\* line 261: min(distances) over the tuples (dist, i): the least dist and,
\* among equal dist, the least index i; sums is sorted (line 239), so the
\* least index is the least sum
ClosestSum(res, sx, sy, ex, ey) ==
    CHOOSE s \in DOMAIN res.sum_combinations :
        \A t \in DOMAIN res.sum_combinations :
            \/ PointDist2(res, sx, sy, s, ex, ey)
                  < PointDist2(res, sx, sy, t, ex, ey)
            \/ /\ PointDist2(res, sx, sy, s, ex, ey)
                     = PointDist2(res, sx, sy, t, ex, ey)
               /\ s <= t

\* a hit test that leaves out the rim of the disc
WithinRadiusOpen(d2) == d2 < HitRadius * HitRadius

\* line 262: min_dist <= 50, on the squared distance
WithinRadius(d2) == d2 <= HitRadius * HitRadius

\* lines 594-621: the label text _on_point_clicked builds
InfoPoint(s, c, ps) ==
    IF Len(ps) > MaxShownPairs
    THEN Info("point", s, c, SubSeq(ps, 1, MaxShownPairs),
              Len(ps) - MaxShownPairs)
    ELSE Info("point", s, c, ps, 0)

\* lines 236-266 and 594-621: a click at display position (ex, ey) under
\* the scales (sx, sy)
OnClickAt(sx, sy, ex, ey) ==
    /\ fpc = "idle"
    /\ current_data # 0                                      \* line 238
    /\ Cardinality(DOMAIN results[current_data].sum_combinations)
          <= MaxViewSums
    /\ \A s \in DOMAIN results[current_data].sum_combinations :
          sx * s <= DisplayWidth
    /\ LET res == results[current_data]
       IN  IF DOMAIN res.sum_combinations = {}               \* line 243
           THEN UNCHANGED info_text
           ELSE LET s == ClosestSum(res, sx, sy, ex, ey)
                IN  IF /\ WithinRadius(PointDist2(res, sx, sy, s, ex, ey))
                       /\ current_result # 0                 \* line 596
                    THEN info_text' =
                            InfoPoint(s, Len(res.sum_combinations[s]),
                                      res.sum_combinations[s])
                    ELSE UNCHANGED info_text
    /\ last_handler' = "click"
    /\ UNCHANGED <<wvars, qvars, fpc, computation_thread,
                   computation_engine, current_result, current_data,
                   apply_enabled, stop_enabled, progress_visible,
                   progress_value, csv_file, njobs, outcome, emitted,
                   delivered, stop_req>>

\* lines 236-266: _on_click
OnClick ==
    \E sx \in ViewScales, sy \in ViewScales, ex \in ClickXs, ey \in ClickYs :
        OnClickAt(sx, sy, ex, ey)

(***************************************************************************)
(* MainWindow._on_export_csv.  A string is the sequence of its characters; *)
(* the file is the sequence of the rows handed to csv.writer, each row     *)
(* the sequence of its fields as text.                                     *)
(***************************************************************************)
DigitChars == <<"0", "1", "2", "3", "4", "5", "6", "7", "8", "9">>

\* str(n) of a natural number, as csv.writer and the f-string produce it
RECURSIVE Str(_)
Str(n) ==
    IF n < 10 THEN <<DigitChars[n + 1]>>
    ELSE Append(Str(n \div 10), DigitChars[(n % 10) + 1])

\* f"({a},{b})" with the two numbers exchanged
PairStrSwapped(pr) ==
    <<"(">> \o Str(pr[2]) \o <<",">> \o Str(pr[1]) \o <<")">>

\* line 657: f"({a},{b})"
PairStr(pr) ==
    <<"(">> \o Str(pr[1]) \o <<",">> \o Str(pr[2]) \o <<")">>

\* line 657: '; '.join of the rendered pairs
RECURSIVE JoinPairs(_)
JoinPairs(ps) ==
    IF ps = <<>> THEN <<>>
    ELSE IF Len(ps) = 1 THEN PairStr(ps[1])
    ELSE PairStr(ps[1]) \o <<";", " ">> \o JoinPairs(Tail(ps))

\* sorted(...) that yields the keys in descending order
RECURSIVE SortedKeysDescending(_)
SortedKeysDescending(S) ==
    IF S = {} THEN <<>>
    ELSE LET m == CHOOSE x \in S : \A y \in S : x >= y
         IN  <<m>> \o SortedKeysDescending(S \ {m})

\* line 654: sorted(self.current_result.sum_combinations.keys())
RECURSIVE SortedKeys(_)
SortedKeys(S) ==
    IF S = {} THEN <<>>
    ELSE LET m == CHOOSE x \in S : \A y \in S : x <= y
         IN  <<m>> \o SortedKeys(S \ {m})

\* line 652: the header row
CsvHeader == << <<"S", "u", "m">>, <<"C", "o", "u", "n", "t">>,
                <<"P", "a", "i", "r", "s">> >>

\* lines 655-658: the row written for the key sum_val
CsvRow(sc, sum_val) ==
    <<Str(sum_val), Str(Len(sc[sum_val])), JoinPairs(sc[sum_val])>>

\* lines 652-658: the rows written for the mapping sc
CsvRows(sc) ==
    LET keys == SortedKeys(DOMAIN sc)
    IN  <<CsvHeader>> \o [i \in 1..Len(keys) |-> CsvRow(sc, keys[i])]

\* lines 639-666: _on_export_csv; named says whether the file dialog
\* returned a file name
OnExportCsv ==
    /\ fpc = "idle"
    /\ IF current_result = 0                                 \* line 641
       THEN UNCHANGED csv_file
       ELSE /\ Cardinality(DOMAIN results[current_result].sum_combinations)
                  <= MaxViewSums
            /\ \E named \in BOOLEAN :
                  IF named
                  THEN csv_file' =
                          CsvRows(results[current_result].sum_combinations)
                  ELSE UNCHANGED csv_file
    /\ last_handler' = "export"
    /\ UNCHANGED <<wvars, qvars, fpc, computation_thread,
                   computation_engine, current_result, current_data,
                   apply_enabled, stop_enabled, progress_visible,
                   progress_value, info_text, njobs, outcome, emitted,
                   delivered, stop_req>>

\* lines 563-572: quit() and wait() return once the worker has left
\* compute_power_sums; the thread ends and the handler completes
CleanupResume ==
    /\ fpc \in {"wait_stop", "wait_finished", "wait_error"}
    /\ wpc = "done"
    /\ fpc' = "idle"
    /\ CleanupTail
    /\ UNCHANGED current_result
    /\ info_text' = InfoAfter(fpc, current_result')
    /\ wpc' = "none"
    /\ wjob' = 0
    /\ should_stop' = FALSE
    /\ power' = 0 /\ max_sum' = 0
    /\ max_individual' = 0 /\ total_pairs' = 0 /\ current_pair' = 0
    /\ a' = 0 /\ b' = 0
    /\ sum_combinations' = EmptyMap
    /\ UNCHANGED <<qvars, current_data, progress_value, csv_file, hvars>>

Init ==
    /\ wpc = "none"
    /\ wjob = 0
    /\ should_stop = FALSE
    /\ power = 0 /\ max_sum = 0
    /\ max_individual = 0 /\ total_pairs = 0 /\ current_pair = 0
    /\ a = 0 /\ b = 0
    /\ sum_combinations = EmptyMap
    /\ events = <<>>
    /\ results = NoResults
    /\ fpc = "idle"
    /\ computation_thread = 0 /\ computation_engine = 0   \* lines 287-288
    /\ current_result = 0 /\ current_data = 0             \* lines 291, 155
    /\ apply_enabled = TRUE /\ stop_enabled = FALSE       \* lines 376-378
    /\ progress_visible = FALSE /\ progress_value = 0     \* line 397
    /\ info_text = InfoSelect                             \* line 422
    /\ csv_file = <<>>
    /\ njobs = 0
    /\ outcome = [j \in Jobs |-> "running"]
    /\ emitted = <<>>
    /\ delivered = <<>>
    /\ stop_req = [j \in Jobs |-> "no"]
    /\ last_handler = "none"

Next ==
    \/ WBegin \/ WOuter \/ WInner \/ WFinish \/ WFault
    \/ OnApply \/ OnStop \/ OnComputationFinished \/ OnComputationError
    \/ OnProgressUpdate \/ CleanupResume

Spec == Init /\ [][Next]_vars

(***************************************************************************)
(* The whole window: job control together with the handlers of the result  *)
(* on display, clicks on the plot and exports.                             *)
(***************************************************************************)
AppNext == Next \/ OnClick \/ OnExportCsv

AppSpec == Init /\ [][AppNext]_vars

(***************************************************************************)
(* Progress reporting: compute_power_sums run to completion on inputs that *)
(* include runs of more than ProgressInterval pairs, one of them on a      *)
(* perfect cube, and _on_progress_update handling what they emit.          *)
(***************************************************************************)
ProgressInputs ==
    {LongInput, <<3, 97336>>, <<2, 3000>>, <<2, 1>>, <<3, 8>>, <<1, 3>>}

ProgressInit == RunInit(ProgressInputs)

ProgressNext == WBegin \/ WOuter \/ WInner \/ WFinish \/ OnProgressUpdate

ProgressSpec == ProgressInit /\ [][ProgressNext]_vars

(***************************************************************************)
(* The enumeration at statement granularity, with a stop request that may  *)
(* arrive at any moment and a statement that may raise.  The worker thread *)
(* is scheduled by the operating system: it keeps taking steps until       *)
(* compute_power_sums returns, which is the weak fairness of StepFairSpec. *)
(***************************************************************************)
\* largest max_sum of the inputs run at statement granularity
StepMaxSum == 12

StepInputs == ({1, 2, 3, 4, 5} \X (0 .. StepMaxSum)) \cup {<<1, 64>>}

StepInit == RunInit(StepInputs)

WorkerStep == WBegin \/ WOuter \/ WInnerHead \/ WInnerBody \/ WFinish

StepNext == WorkerStep \/ WFault \/ StopComputation

StepSpec == StepInit /\ [][StepNext]_vars

StepFairSpec == StepSpec /\ WF_vars(WorkerStep)

(***************************************************************************)
(* The result on display: compute_power_sums run to completion on an input *)
(* of ViewInputs, its result handed to _on_computation_finished, and then  *)
(* clicks on the plot and exports.                                         *)
(***************************************************************************)
ViewInputs ==
    {<<1, 4>>, <<1, 6>>, <<1, 10>>, <<2, 1>>, <<2, 32>>, <<2, 50>>, <<3, 9>>,
     <<4, 50>>, <<5, 64>>}

ViewInit == EnumInit /\ <<power, max_sum>> \in ViewInputs

ViewNext ==
    \/ WBegin \/ WOuter \/ WInner \/ WFinish
    \/ OnComputationFinished \/ OnClick \/ OnExportCsv

ViewSpec == ViewInit /\ [][ViewNext]_vars


(***************************************************************************)
(* Properties of the enumeration (checked under EnumSpec).                 *)
(***************************************************************************)
\* the <<key, index>> positions of a mapping, and the pair at a position
Positions(sc) == UNION {{<<s, i>> : i \in DOMAIN sc[s]} : s \in DOMAIN sc}
PairAt(sc, pos) == sc[pos[1]][pos[2]]
AllPairs(sc) == {PairAt(sc, pos) : pos \in Positions(sc)}

\* every pair a mapping holds under key s is a canonical pair of sum s
SoundMap(sc, p, m) ==
    \A s \in DOMAIN sc : \A i \in DOMAIN sc[s] :
        LET x == sc[s][i][1]
            y == sc[s][i][2]
        IN  /\ 1 <= x /\ x <= y
            /\ Pow(x, p) + Pow(y, p) = s
            /\ s <= m

\* C1: soundness of the enumeration.  In every state of compute_power_sums,
\* intermediate or final, every pair (a,b) stored under key
\* S of sum_combinations (and of the ComputationResult built from it)
\* satisfies 1 <= a <= b and a^power + b^power = S <= max_sum.
C1_Soundness ==
    /\ SoundMap(sum_combinations, power, max_sum)
    /\ \A j \in DOMAIN results :
          SoundMap(results[j].sum_combinations, results[j].power,
                   results[j].max_num)

\* a finished run with max_sum = 1000 whose mapping has a key of two pairs
C1_Witness ==
    /\ wpc = "done" /\ outcome[1] = "finished"
    /\ power = 2 /\ max_sum = 1000
    /\ 1 \in DOMAIN results
    /\ 65 \in DOMAIN results[1].sum_combinations
    /\ results[1].sum_combinations[65] = << <<1, 8>>, <<4, 7>> >>

RECURSIVE PowUpTo(_, _, _)
\* x^n when that is at most cap, else some value above cap: the search below
\* raises numbers up to max_sum to the power, and Python's integers are
\* unbounded where 32-bit ones are not
PowUpTo(x, n, cap) ==
    IF n = 0 THEN 1
    ELSE LET r == PowUpTo(x, n - 1, cap) IN IF r > cap THEN r ELSE x * r

\* all pairs 1 <= x <= y with x^p + y^p <= m, by search over 1..m
BruteForce(p, m) ==
    UNION {{<<x, y>> : y \in {y \in x .. m :
                                PowUpTo(x, p, m) + PowUpTo(y, p, m) <= m}} :
              x \in 1 .. m}

\* C2: exhaustiveness.  The mapping delivered by a completed, uncancelled
\* compute_power_sums holds exactly the pairs 1 <= a <= b with
\* a^power + b^power <= max_sum, whichever value the float root took; for
\* power 2 and max_sum 50 key 50 holds (1,7) and (5,5); max_sum < 2 gives
\* the empty mapping.
C2_Exhaustive ==
    (wpc = "done" /\ outcome[1] = "finished") =>
        /\ 1 \in DOMAIN results
        /\ AllPairs(results[1].sum_combinations) = BruteForce(power, max_sum)
        /\ (power = 2 /\ max_sum = 50) =>
              /\ 50 \in DOMAIN results[1].sum_combinations
              /\ results[1].sum_combinations[50] = << <<1, 7>>, <<5, 5>> >>
        /\ max_sum < 2 => results[1].sum_combinations = EmptyMap

C2_Witness ==
    /\ wpc = "done" /\ outcome[1] = "finished"
    /\ power = 2 /\ max_sum = 50
    /\ results[1].sum_combinations[50] = << <<1, 7>>, <<5, 5>> >>
    /\ Cardinality(AllPairs(results[1].sum_combinations)) = 19

\* C3: no duplicates.  No unordered pair {a,b} occupies two positions of the
\* mapping, under one key or under two.
C3_NoDuplicates ==
    Cardinality({{PairAt(sum_combinations, pos)[1],
                  PairAt(sum_combinations, pos)[2]} :
                     pos \in Positions(sum_combinations)})
        = Cardinality(Positions(sum_combinations))

\* a run that has appended several pairs, two of them under one key
C3_Witness ==
    /\ power = 2 /\ max_sum = 50
    /\ 50 \in DOMAIN sum_combinations
    /\ Len(sum_combinations[50]) = 2
    /\ Cardinality(Positions(sum_combinations)) >= 10


(***************************************************************************)
(* Properties of a job and of the window's handlers (checked under Spec).  *)
(***************************************************************************)
\* the model keeps one worker slot: a thread the window references is the
\* one the worker slot holds, and no worker exists without it
OneWorkerSlot ==
    /\ (computation_thread = 0) <=> (wpc = "none")
    /\ computation_thread # 0 => computation_thread = wjob
    /\ computation_thread = computation_engine
    /\ (apply_enabled /\ fpc = "idle") => wpc = "none"

\* the events a job's run ends with; the engine declares finished and error
\* (lines 64-66) and has no signal that acknowledges a cancellation
TerminalTypes == {"finished", "cancelled", "error"}

\* how many events of job j with a type in T the log holds
NEvents(log, j, T) ==
    Cardinality({i \in DOMAIN log : log[i].job = j /\ log[i].type \in T})

\* C4: a stop requested right after _start_computation, before the worker
\* has executed the first statement of compute_power_sums, is followed by
\* no finished event of that job, no ComputationResult and no replacement
\* of current_result by that job.
C4_CancelRightAfterStart ==
    \A j \in Jobs :
        stop_req[j] = "started" =>
            /\ NEvents(emitted, j, {"finished"}) = 0
            /\ j \notin DOMAIN results
            /\ current_result # j

C6_StartAfterTerminalObserved ==
    [][njobs' = njobs + 1 =>
          /\ wpc = "none"
          /\ \A i \in DOMAIN events : events[i].type \notin TerminalTypes]_vars

\* C7: a stop request written while a job is active stays set until the
\* job's run is over; no step of the job overwrites it.
C7_StopRequestKept ==
    [][(should_stop /\ wpc \in {"started", "outer", "inner", "finish"})
          => should_stop']_vars

\* the finished event of the latest job has been handled
CompletionHandled ==
    /\ fpc = "idle"
    /\ njobs > 0
    /\ NEvents(delivered, njobs, {"finished"}) = 1

\* C8: _on_stop invoked after the finished event of the job has been handled
\* finds no thread and no engine, Apply enabled and Stop disabled, and
\* changes nothing: not current_result, not the plot's data, not the
\* bookkeeping, not the stop flag, and it emits nothing.
C8_StopAfterCompletionNoOp ==
    [][(CompletionHandled /\ OnStop) =>
          /\ computation_thread = 0 /\ computation_engine = 0
          /\ apply_enabled /\ ~stop_enabled
          /\ UNCHANGED <<wvars, qvars, fvars, njobs, outcome, emitted,
                         delivered, stop_req>>]_vars

C8_Witness ==
    /\ CompletionHandled
    /\ last_handler = "stop"
    /\ current_result = njobs /\ current_data = njobs
    /\ computation_thread = 0 /\ apply_enabled /\ ~stop_enabled

\* C9: the events of one job reach the foreground with non-decreasing
\* pairs_examined among its progress events and with its terminal event
\* last: nothing of the job is delivered after its finished or error.
C9_EventOrder ==
    \A i, k \in DOMAIN delivered :
        (i < k /\ delivered[i].job = delivered[k].job) =>
            /\ delivered[i].type = "progress"
            /\ delivered[k].type = "progress" =>
                  delivered[i].current <= delivered[k].current

\* two progress events and then the finished event of one job, delivered
C9_Witness ==
    /\ Len(delivered) = 3
    /\ delivered[1].type = "progress" /\ delivered[1].current = 1000
    /\ delivered[2].type = "progress" /\ delivered[2].current = 2000
    /\ delivered[3].type = "finished"
    /\ delivered[1].job = 1 /\ delivered[2].job = 1 /\ delivered[3].job = 1

\* what holds of a job in which a statement raised
FaultOutcome ==
    \A j \in Jobs :
        outcome[j] = "error" =>
            /\ NEvents(emitted, j, {"error"}) = 1
            /\ NEvents(emitted, j, {"finished"}) = 0
            /\ j \notin DOMAIN results
            /\ current_result # j
            /\ (wjob = j => wpc = "done")

\* C10: a job in which an exception is raised emits one error event and no
\* finished event, builds no result and returns normally; the error
\* handler, to its end, leaves current_result and the plot's data as they
\* were.
C10_FaultHandling ==
    [][/\ FaultOutcome'
       /\ (OnComputationError \/ (fpc = "wait_error" /\ CleanupResume)) =>
             UNCHANGED <<current_result, current_data, results>>]_vars

\* the error of a second job handled while the result of the first is held
C10_Witness ==
    /\ fpc = "idle" /\ last_handler = "error"
    /\ outcome[1] = "finished" /\ outcome[2] = "error"
    /\ NEvents(delivered, 2, {"error"}) = 1
    /\ current_result = 1 /\ current_data = 1
    /\ 1 \in DOMAIN results

\* the inputs _on_apply must refuse: text that is not a number, a value
\* that is not positive, a large value whose confirmation is declined
InvalidInput(req) ==
    \/ ~req.numeric
    \/ req.value <= 0
    \/ (req.value > LargeMaxSum /\ ~req.reply)

\* C11: _on_apply on an invalid input returns without starting a job:
\* computation_thread and computation_engine stay None, nothing is emitted,
\* no worker exists and current_result is what it was.
C11_RejectedInput ==
    [][\A req \in ApplyRequests(njobs + 1) :
          (InvalidInput(req) /\ OnApplyWith(req)) =>
              /\ computation_thread' = 0 /\ computation_engine' = 0
              /\ UNCHANGED <<wvars, qvars, computation_thread,
                             computation_engine, current_result,
                             current_data, njobs, emitted, outcome>>]_vars

\* an input refused while the result of the first job is held
C11_Witness ==
    /\ last_handler = "rejected"
    /\ njobs = 1 /\ current_result = 1
    /\ computation_thread = 0 /\ computation_engine = 0 /\ wpc = "none"

(***************************************************************************)
(* Properties of the result on display (checked under ViewSpec).           *)
(***************************************************************************)
\* the sums of the result on display whose points are nearest to (ex, ey)
NearestSums(res, sx, sy, ex, ey) ==
    {s \in DOMAIN res.sum_combinations :
        \A t \in DOMAIN res.sum_combinations :
            PointDist2(res, sx, sy, s, ex, ey)
               <= PointDist2(res, sx, sy, t, ex, ey)}

\* the label shows the point of sum s of res: its sum, count and pairs
ShowsPoint(info, res, s) ==
    /\ info.kind = "point"
    /\ info.sum = s
    /\ info.count = Len(res.sum_combinations[s])
    /\ info.pairs = SubSeq(res.sum_combinations[s], 1, Len(info.pairs))
    /\ Len(info.pairs) + info.more = Len(res.sum_combinations[s])

\* C12: on a non-empty result a click reports a point of the series at the
\* least Euclidean distance from the click, with its sum, count and pairs,
\* exactly when that distance is at most the hit radius of 50; otherwise it
\* reports nothing.  A click on a point reports that point.
C12_NearestWithinRadius ==
    [][\A sx \in ViewScales, sy \in ViewScales,
          ex \in ClickXs, ey \in ClickYs :
          (OnClickAt(sx, sy, ex, ey)
             /\ DOMAIN results[current_data].sum_combinations # {}) =>
             LET res  == results[current_data]
                 near == NearestSums(res, sx, sy, ex, ey)
                 d2   == PointDist2(res, sx, sy,
                                    CHOOSE s \in near : TRUE, ex, ey)
             IN  IF d2 <= HitRadius * HitRadius
                 THEN /\ \E s \in near : ShowsPoint(info_text', res, s)
                      /\ d2 = 0 => near = {info_text'.sum}
                 ELSE UNCHANGED info_text]_vars

\* the second point of the result for power 3, max_sum 9 reported: under
\* the model's clicks and scales only a click 50 units from it does that
C12_Witness ==
    /\ current_data = 1 /\ results[1].power = 3 /\ results[1].max_num = 9
    /\ info_text.kind = "point" /\ info_text.sum = 9
    /\ info_text.count = 1 /\ info_text.pairs = << <<1, 2>> >>

\* C13: when several points of the series are at the same least distance
\* from the click, the one reported is the one of the smallest sum.
C13_TieBreak ==
    [][\A sx \in ViewScales, sy \in ViewScales,
          ex \in ClickXs, ey \in ClickYs :
          (OnClickAt(sx, sy, ex, ey) /\ info_text' # info_text) =>
             \A t \in NearestSums(results[current_data], sx, sy, ex, ey) :
                 info_text'.sum <= t]_vars

\* sum 2 of a result for power 1 reported: under the model's clicks and
\* scales only the click midway between the points of sums 2 and 3 does that
C13_Witness ==
    /\ current_data = 1 /\ results[1].power = 1
    /\ 3 \in DOMAIN results[1].sum_combinations
    /\ info_text.kind = "point" /\ info_text.sum = 2

(***************************************************************************)
(* Order of the groups (checked under EnumSpec).                           *)
(***************************************************************************)
\* pair x comes before pair y in lexicographic order
LexLess(x, y) == x[1] < y[1] \/ (x[1] = y[1] /\ x[2] < y[2])

\* the pairs of the set S as a sequence in ascending lexicographic order
RECURSIVE LexSorted(_)
LexSorted(S) ==
    IF S = {} THEN <<>>
    ELSE LET m == CHOOSE x \in S : \A y \in S \ {x} : LexLess(x, y)
         IN  <<m>> \o LexSorted(S \ {m})

\* the mapping the inputs determine: every canonical pair within the
\* threshold, grouped by its sum, each group in lexicographic order
CanonicalMap(p, m) ==
    LET all == BruteForce(p, m)
        SumOf(pr) == PowUpTo(pr[1], p, m) + PowUpTo(pr[2], p, m)
    IN  [s \in {SumOf(pr) : pr \in all} |->
            LexSorted({pr \in all : SumOf(pr) = s})]

\* C14: in every state of a run each group lists its pairs in ascending
\* lexicographic order of (a, b), the order of discovery; and the mapping
\* of a completed run is the one its (power, max_sum) determine, so two
\* runs on the same inputs give the same mapping, pair order included.
C14_StableOrder ==
    /\ \A s \in DOMAIN sum_combinations :
          \A i, k \in DOMAIN sum_combinations[s] :
              i < k => LexLess(sum_combinations[s][i], sum_combinations[s][k])
    /\ (wpc = "done" /\ outcome[1] = "finished") =>
          results[1].sum_combinations = CanonicalMap(power, max_sum)

\* a completed run for power 2 and max_sum 1000 with a group of three pairs
C14_Witness ==
    /\ wpc = "done" /\ outcome[1] = "finished"
    /\ power = 2 /\ max_sum = 1000
    /\ results[1].sum_combinations[325]
          = << <<1, 18>>, <<6, 17>>, <<10, 15>> >>

(***************************************************************************)
(* The exported table (checked under ViewSpec).  The operators below read  *)
(* a table back the way a consumer of the file does: int() of the first    *)
(* two fields, the third split on "; " and each piece read as "(a,b)".     *)
(***************************************************************************)
\* the first position from i on where "; " starts in cs, or 0
RECURSIVE SepAt(_, _)
SepAt(cs, i) ==
    IF i + 1 > Len(cs) THEN 0
    ELSE IF cs[i] = ";" /\ cs[i + 1] = " " THEN i
    ELSE SepAt(cs, i + 1)

\* cs.split("; ")
RECURSIVE SplitPairs(_)
SplitPairs(cs) ==
    LET i == SepAt(cs, 1)
    IN  IF i = 0 THEN <<cs>>
        ELSE <<SubSeq(cs, 1, i - 1)>>
                \o SplitPairs(SubSeq(cs, i + 2, Len(cs)))

\* int(cs) of a string of digits
RECURSIVE ParseInt(_)
ParseInt(cs) ==
    IF cs = <<>> THEN 0
    ELSE 10 * ParseInt(SubSeq(cs, 1, Len(cs) - 1))
            + (CHOOSE d \in 0..9 : DigitChars[d + 1] = cs[Len(cs)])

\* the pair written as "(a,b)"
ParsePair(cs) ==
    LET c == CHOOSE i \in 1..Len(cs) : cs[i] = ","
    IN  <<ParseInt(SubSeq(cs, 2, c - 1)),
          ParseInt(SubSeq(cs, c + 1, Len(cs) - 1))>>

\* the data rows of a table, each read back
ReadBack(rows) ==
    [i \in 1..(Len(rows) - 1) |->
        LET row    == rows[i + 1]
            pieces == SplitPairs(row[3])
        IN  [sum   |-> ParseInt(row[1]),
             count |-> ParseInt(row[2]),
             pairs |-> [k \in 1..Len(pieces) |-> ParsePair(pieces[k])]]]

\* the table rows has the shape the export promises for the mapping sc
TableShape(rows, sc) ==
    /\ rows[1] = << <<"S", "u", "m">>, <<"C", "o", "u", "n", "t">>,
                    <<"P", "a", "i", "r", "s">> >>
    /\ Len(rows) = 1 + Cardinality(DOMAIN sc)
    /\ \A i \in 2..Len(rows) :
          LET key    == ParseInt(rows[i][1])
              pieces == SplitPairs(rows[i][3])
          IN  /\ key \in DOMAIN sc
              /\ rows[i][1] = Str(key)
              /\ i > 2 => ParseInt(rows[i - 1][1]) < key
              /\ rows[i][2] = Str(Len(sc[key]))
              /\ Len(pieces) = Len(sc[key])
              /\ \A k \in 1..Len(pieces) :
                    pieces[k] = <<"(">> \o Str(sc[key][k][1]) \o <<",">>
                                   \o Str(sc[key][k][2]) \o <<")">>

\* C15: an export writes the header row (Sum, Count, Pairs) and then
\* exactly one row per key of the result, in strictly ascending order of
\* the sums; Count is the number of pairs of the group and Pairs is the
\* group's pairs in stored order, each as "(a,b)", joined by "; ".
C15_ExportShape ==
    [][(OnExportCsv /\ csv_file' # csv_file) =>
          TableShape(csv_file', results[current_result].sum_combinations)]_vars

\* the table written for power 2, max_sum 50: 18 sums, the last one 50
C15_Witness ==
    /\ current_result = 1 /\ results[1].power = 2 /\ results[1].max_num = 50
    /\ Len(csv_file) = 19
    /\ csv_file[19] = << <<"5", "0">>, <<"2">>,
                         <<"(", "1", ",", "7", ")", ";", " ",
                           "(", "5", ",", "5", ")">> >>

\* C16: reading an exported table back (sum, count, pairs split on "; ")
\* gives the result's mapping again: the same sums in the same order, the
\* same counts and the same pairs in the same order.
C16_ExportRoundTrip ==
    [][(OnExportCsv /\ csv_file' # csv_file) =>
          LET sc   == results[current_result].sum_combinations
              back == ReadBack(csv_file')
          IN  /\ [i \in DOMAIN back |-> back[i].sum] = SortedKeys(DOMAIN sc)
              /\ \A i \in DOMAIN back :
                    /\ back[i].pairs = sc[back[i].sum]
                    /\ back[i].count = Len(sc[back[i].sum])]_vars

\* the table written for power 1, max_sum 10, whose last row holds a sum
\* of two digits and five pairs
C16_Witness ==
    /\ current_result = 1 /\ results[1].power = 1 /\ results[1].max_num = 10
    /\ Len(csv_file) = 10
    /\ csv_file[10][1] = <<"1", "0">> /\ csv_file[10][2] = <<"5">>
    /\ ReadBack(csv_file)[9].pairs
          = << <<1, 9>>, <<2, 8>>, <<3, 7>>, <<4, 6>>, <<5, 5>> >>

(***************************************************************************)
(* Properties of the whole window (checked under AppSpec and Spec).        *)
(***************************************************************************)
\* the step is _on_computation_finished taking the finished event at the
\* head of the queue
HandlesFinished ==
    /\ fpc = "idle"
    /\ events # <<>>
    /\ Head(events).type = "finished"
    /\ events' = Tail(events)

\* C17: current_result is replaced only by the handling of a finished
\* event, and then by the result that event carries; no other step (start
\* of a job, progress, stop, error, refused input, click, export, any step
\* of the worker) changes it, and no step changes a result once built.
C17_ResultLifecycle ==
    [][/\ current_result' # current_result =>
             /\ HandlesFinished
             /\ current_result' = Head(events).job
       /\ HandlesFinished => current_result' = Head(events).job
       /\ \A j \in DOMAIN results :
             j \in DOMAIN results' /\ results'[j] = results[j]]_vars

\* the result of the first job still held after a second job was started
\* and stopped, a click reported a point of it and it was exported
C17_Witness ==
    /\ njobs = 2 /\ outcome[1] = "finished" /\ outcome[2] = "stopped"
    /\ fpc = "idle" /\ wpc = "none"
    /\ current_result = 1
    /\ info_text.kind = "point"
    /\ csv_file = CsvRows(results[1].sum_combinations)

\* C18: the foreground never blocks waiting for the background: whenever
\* it is inside a handler, the handler can proceed without the worker
\* having to reach some state first.
C18_ForegroundNeverBlocks ==
    fpc \in {"wait_stop", "wait_finished", "wait_error"} => wpc = "done"

\* in this step a loop-top check of the worker (line 99 or 107) reads the
\* stop flag set
ReadsStop ==
    /\ should_stop
    /\ \/ wpc = "outer" /\ a <= max_individual /\ WOuter
       \/ wpc = "inner" /\ b <= max_individual /\ WInner

\* C19: when a loop-top check reads should_stop true the job returns at
\* once: it emits nothing and builds no ComputationResult; the job never
\* emits a finished or error event, and the mapping it had accumulated is
\* never delivered or held by the window.
C19_StopDiscardsRun ==
    [][/\ ReadsStop =>
             /\ wpc' = "done"
             /\ outcome'[wjob] = "stopped"
             /\ UNCHANGED <<events, emitted, results, current_result>>
       /\ \A j \in Jobs :
             outcome'[j] = "stopped" =>
                /\ j \notin DOMAIN results'
                /\ NEvents(emitted', j, TerminalTypes) = 0
                /\ current_result' # j /\ current_data' # j]_vars

\* a job stopped while in its inner loop, after which a
\* second job ran to completion
C19_Witness ==
    /\ outcome[1] = "stopped" /\ stop_req[1] = "inner"
    /\ 1 \notin DOMAIN results
    /\ outcome[2] = "finished" /\ current_result = 2
    /\ fpc = "idle" /\ wpc = "none"

(***************************************************************************)
(* The pair counter (checked under EnumSpec).                              *)
(***************************************************************************)
\* the sum of mi - x + 1 over the x in 1..n with 2 * x^p <= m
RECURSIVE ExaminedUpTo(_, _, _, _)
ExaminedUpTo(n, p, m, mi) ==
    IF n = 0 THEN 0
    ELSE ExaminedUpTo(n - 1, p, m, mi)
            + (IF 2 * PowUpTo(n, p, m) <= m THEN mi - n + 1 ELSE 0)

\* C20: the inner loop is left early only when its first candidate b = a
\* gives a sum above max_sum, and that iteration is not counted; otherwise
\* it runs b up to max_individual.  So a completed run has examined, by its
\* counter, the sum over the a with 2 * a^power <= max_sum of
\* (max_individual - a + 1) pairs.
C20_PruningAsymmetry ==
    [][/\ (WInner /\ wpc' = "outer") =>
             /\ current_pair' = current_pair
             /\ \/ b > max_individual
                \/ b = a /\ Pow(a, power) + Pow(b, power) > max_sum
       /\ (wpc' = "done" /\ outcome'[1] = "finished") =>
             current_pair' = ExaminedUpTo(max_individual', power', max_sum',
                                          max_individual')]_vars

\* a completed run for power 2 and max_sum 50: max_individual is 8, the
\* rows a = 1..5 are scanned to the end (8 + 7 + 6 + 5 + 4 pairs) and the
\* rows a = 6, 7 are left at b = a
C20_Witness ==
    /\ wpc = "done" /\ outcome[1] = "finished"
    /\ power = 2 /\ max_sum = 50 /\ max_individual = 8
    /\ current_pair = 30
    /\ Cardinality(AllPairs(results[1].sum_combinations)) = 19

(***************************************************************************)
(* The pruning variant (checked under EnumSpec): the same two loops, the   *)
(* inner one left at the first b whose sum exceeds max_sum.  A run of the  *)
(* variant is the record of its mapping and of its pair counter.           *)
(***************************************************************************)
\* the first b from y on at which the variant leaves the inner loop of
\* row x: b beyond max_individual, or a sum above max_sum
RECURSIVE PrunedStop(_, _, _, _, _)
PrunedStop(x, y, p, m, mi) ==
    IF y > mi \/ Pow(x, p) + Pow(y, p) > m THEN y
    ELSE PrunedStop(x, y + 1, p, m, mi)

\* the pairs the variant examines, all of which it keeps; rows are visited
\* in ascending a and each row in ascending b
PrunedPairs(p, m, mi) ==
    UNION {{<<x, y>> : y \in x .. (PrunedStop(x, x, p, m, mi) - 1)} :
              x \in 1 .. mi}

\* a run of the variant: each group lists its pairs in the order of the
\* visit, which is the lexicographic order
PrunedRun(p, m, mi) ==
    LET all == PrunedPairs(p, m, mi)
        SumOf(pr) == Pow(pr[1], p) + Pow(pr[2], p)
    IN  [map   |-> [s \in {SumOf(pr) : pr \in all} |->
                       LexSorted({pr \in all : SumOf(pr) = s})],
         count |-> Cardinality(all)]

\* C21: the mapping of a completed run (keys, pairs, order within each
\* group) is the mapping of the variant that leaves the inner loop at the
\* first b with a^power + b^power > max_sum, and the variant examines no
\* more pairs than the run counted.
C21_PruningEquivalence ==
    (wpc = "done" /\ outcome[1] = "finished") =>
        LET v == PrunedRun(power, max_sum, max_individual)
        IN  /\ results[1].sum_combinations = v.map
            /\ v.count <= current_pair

\* a completed run for power 2 and max_sum 50: it counted 30 pairs, the
\* variant examines the 19 it keeps
C21_Witness ==
    /\ wpc = "done" /\ outcome[1] = "finished"
    /\ power = 2 /\ max_sum = 50 /\ current_pair = 30
    /\ PrunedRun(power, max_sum, max_individual).count = 19
    /\ results[1].sum_combinations = PrunedRun(2, 50, 8).map

(***************************************************************************)
(* Properties of the progress reports (checked under ProgressSpec).        *)
(***************************************************************************)
\* the progress emissions of job j so far, oldest first
ProgressOf(j) ==
    LET IsProgress(e) == e.type = "progress" /\ e.job = j
    IN  SelectSeq(emitted, IsProgress)

\* C22: a job emits a progress event exactly when its pair counter reaches
\* a positive multiple of 1000; the event carries the counter and the
\* total max_individual * (max_individual + 1) / 2 for
\* max_individual = floor(max_sum^(1/power)) + 1, the same total in every
\* event, and consecutive events are 1000 pairs apart.
C22_ProgressCadence ==
    wpc \in {"outer", "inner", "finish", "done"} =>
        LET pe == ProgressOf(wjob)
        IN  /\ Len(pe) = current_pair \div ProgressInterval
            /\ \A i \in DOMAIN pe :
                  /\ pe[i].current = i * ProgressInterval
                  /\ pe[i].total = TotalPairs(IRoot(max_sum, power) + 1)

\* C23: the total is an upper bound: in every state of a running job the
\* pair counter is at most total_pairs, and so every progress event has
\* pairs_examined <= total_pairs_estimate.
C23_TotalIsUpperBound ==
    /\ wpc \in {"outer", "inner", "finish", "done"} =>
          current_pair <= total_pairs
    /\ \A i \in DOMAIN emitted :
          emitted[i].type = "progress" => emitted[i].current <= emitted[i].total

\* the completed run for power 2 and max_sum 5000: 2325 pairs counted
\* against a total of 2556, the second progress event at 2000
C23_Witness ==
    /\ wpc = "done" /\ outcome[1] = "finished"
    /\ power = 2 /\ max_sum = 5000
    /\ current_pair = 2325 /\ total_pairs = 2556
    /\ Len(ProgressOf(1)) = 2
    /\ ProgressOf(1)[2].current = 2000 /\ ProgressOf(1)[2].total = 2556

\* progress signals in a log
NProgress(log) ==
    LET IsProgress(e) == e.type = "progress" IN Len(SelectSeq(log, IsProgress))

\* C24: cancellation latency.  The flag is read at the top of every outer
\* and every inner iteration: while should_stop is true, a step of the
\* worker from the top of a loop never enters a loop body (it appends no
\* pair, counts nothing and emits no progress signal, and leaves the loops
\* or returns), and a body the worker is in when the flag is set is the
\* last one it completes: at most one further pair, at most one further
\* progress signal.
C24_CancellationLatency ==
    [][(should_stop /\ wpc \in {"outer", "inner", "body"}) =>
          /\ should_stop'
          /\ wpc = "outer" =>
                /\ wpc' \in {"done", "finish"}
                /\ UNCHANGED <<sum_combinations, current_pair>>
                /\ NProgress(emitted') = NProgress(emitted)
          /\ wpc = "inner" =>
                /\ wpc' \in {"done", "outer"}
                /\ UNCHANGED <<sum_combinations, current_pair>>
                /\ NProgress(emitted') = NProgress(emitted)
          /\ wpc = "body" =>
                /\ wpc' \in {"done", "inner", "outer"}
                /\ current_pair' <= current_pair + 1
                /\ NProgress(emitted') <= NProgress(emitted) + 1
      ]_vars

\* the flag was set while the worker was inside the body that counted pair
\* 1000: that pair and its progress signal are the last of the run
C24_Witness ==
    /\ stop_req[1] = "body" /\ should_stop
    /\ wpc = "done" /\ outcome[1] = "stopped"
    /\ current_pair = ProgressInterval
    /\ NProgress(emitted) = 1

\* C25: termination.  For every power >= 1 and max_sum >= 0 a started job
\* whose thread keeps being scheduled eventually returns with a terminal
\* outcome: finished emitted, returned on stop, or error emitted, whether
\* or not a stop is requested on the way.
C25_Termination ==
    <>(wpc = "done" /\ outcome[1] \in {"finished", "stopped", "error"})

\* a run that returned on a stop requested in the middle of the enumeration
C25_Witness ==
    /\ wpc = "done" /\ outcome[1] = "stopped"
    /\ stop_req[1] = "inner"
    /\ power = 1 /\ max_sum = 64 /\ a = 20 /\ b = 30

(***************************************************************************)
(* Stop requests and the events of a job (checked under Spec).             *)
(***************************************************************************)
\* C26: no result after a handled Stop: once _on_stop has run for a job, no
\* finished event of that job is handled, so current_result and the plot
\* are never replaced by the result of a job the user cancelled, also when
\* the request arrives after the worker's last read of the flag.
C26_NoResultAfterStop ==
    [][HandlesFinished => stop_req[Head(events).job] = "no"]_vars

\* in this step the foreground handles the oldest queued event
HandlesEvent ==
    /\ fpc = "idle"
    /\ events # <<>>
    /\ events' = Tail(events)

\* C27: events act only on the job that emitted them: when a finished,
\* error or progress event is handled, the job the window has registered
\* (computation_thread, computation_engine) is the job that emitted it, so
\* an event of an earlier job never tears down a later job or moves its
\* progress bar.
C27_EventsOfCurrentJob ==
    [][HandlesEvent =>
          /\ computation_engine = Head(events).job
          /\ computation_thread = Head(events).job]_vars

\* C28: cancellation does not leak across jobs: every job starts with its
\* stop flag false and with no stop request of its own, and a job ends
\* without a completion event (returns on the flag) only when a stop was
\* requested while it was the registered job, never because of a stop
\* issued before its _start_computation.
C28_NoLeakAcrossJobs ==
    [][/\ njobs' = njobs + 1 =>
             /\ ~should_stop'
             /\ wjob' = njobs' /\ computation_engine' = njobs'
             /\ stop_req'[njobs'] = "no"
       /\ \A j \in Jobs :
             outcome'[j] = "stopped" => stop_req'[j] # "no"]_vars

\* the first job was stopped in its outer loop; the second, started after
\* that stop, ran to its finished event, which was handled
C28_Witness ==
    /\ njobs = 2
    /\ stop_req[1] = "outer" /\ outcome[1] = "stopped"
    /\ stop_req[2] = "no" /\ outcome[2] = "finished"
    /\ NEvents(delivered, 2, {"finished"}) = 1
    /\ NEvents(delivered, 1, TerminalTypes) = 0

(***************************************************************************)
(* The progress bar (checked under Spec).                                  *)
(***************************************************************************)
\* C29: progress never reaches the total: once a job has computed its
\* total, its pair counter is strictly below total_pairs in every state,
\* every progress event carries current < total, and the percentage set
\* on the progress bar is at most 99.
C29_ProgressBelowTotal ==
    /\ max_individual > 0 => current_pair < total_pairs      \* past line 94
    /\ \A i \in DOMAIN emitted :
          emitted[i].type = "progress" => emitted[i].current < emitted[i].total
    /\ progress_value <= 99

\* the second progress event of the long job handled: 2000 of 2556 is 78
C29_Witness ==
    /\ last_handler = "progress"
    /\ NEvents(delivered, 1, {"progress"}) = 2
    /\ delivered[Len(delivered)].current = 2 * ProgressInterval
    /\ delivered[Len(delivered)].total = 2556
    /\ progress_value = 78

(***************************************************************************)
(* The controls (checked under Spec).                                      *)
(***************************************************************************)
\* C30: control-state invariant: whenever no handler of the foreground is
\* in progress, Apply is enabled exactly when no job is registered
\* (computation_thread and computation_engine both None), Stop is enabled
\* exactly when a job is registered, and computation_thread is None if and
\* only if computation_engine is None.
C30_ControlState ==
    fpc = "idle" =>
        /\ apply_enabled <=> (computation_thread = 0 /\ computation_engine = 0)
        /\ stop_enabled <=> (computation_thread # 0 /\ computation_engine # 0)
        /\ (computation_thread = 0) <=> (computation_engine = 0)

\* both sides of the equivalences: the second job registered with Stop
\* enabled and Apply disabled, after the first job was stopped and cleaned up
C30_Witness ==
    /\ fpc = "idle" /\ njobs = 2
    /\ last_handler = "apply"
    /\ outcome[1] = "stopped"
    /\ computation_thread = 2 /\ computation_engine = 2
    /\ stop_enabled /\ ~apply_enabled

=============================================================================
